---- MODULE Spec2Model ----
(***************************************************************************)
(* A model of the LLM invocation layer of the Cold-Email-Generator:        *)
(* src/chains.py (_get_secret, _make_groq_llm, _make_gemini_llm,           *)
(* _invoke_with_retry, Chain.__init__, Chain.extract_jobs,                 *)
(* Chain.write_mail).                                                      *)
(*                                                                         *)
(* Python values are modelled as follows.  None is the string NoneVal, a   *)
(* str is a TLA+ string, truthiness is Truthy.  An exception is a record   *)
(* [kind, cand, try, msg] naming where it was raised; its message is a     *)
(* sequence of word tokens.  A model response is [hasContent, text] where  *)
(* text is a sequence of JSON tokens.  The providers are mocked by behav:  *)
(* for every model name, how the client construction ends and what each    *)
(* successive invoke on a handle of that model does.                       *)
(***************************************************************************)
EXTENDS Integers, Sequences, FiniteSets, TLC

VARIABLES
    stMode,      \* streamlit: "absent" (st is None / no secrets), "raises", "ok"
    store,       \* st.secrets: name -> value
    env,         \* os.environ: name -> value
    behav,       \* mock of the providers: model name -> behaviour
    chain,       \* the Chain object: [constructed, fast_key, heavy_key, ...]
    pc,          \* position of the program
    op,          \* the pipeline method being run: "none", "extract", "write", "retry"
    attempts,    \* local `attempts` of extract_jobs / write_mail
    idx,         \* position of the for loop over attempts (1-based)
    last_error,  \* local `last_error` of extract_jobs / write_mail
    handle,      \* behaviour of the client handle under _invoke_with_retry
    retries,     \* parameter `retries` of _invoke_with_retry
    tryNo,       \* number of chain.invoke calls made by the running wrapper
    last,        \* local `last` of _invoke_with_retry
    res,         \* value returned by _invoke_with_retry
    result,      \* value returned by the pipeline method
    exc,         \* exception propagating out of the wrapper / the method
    log,         \* history: every construct / invoke / sleep, in order
    args,        \* arguments of the pipeline call: [cleaned_text, job, links]
    payload,     \* parameter `payload` of _invoke_with_retry
    done,        \* the caller's history: one record per call that returned
    shown        \* what the UI shows for a failed run: "none", "advice", "generic"

vars == << stMode, store, env, behav, chain, pc, op, attempts, idx, last_error,
           handle, retries, tryNo, last, res, result, exc, log, args, payload,
           done, shown >>

------------------------------------------------------------------------------
(* Python values *)

NoneVal == "<None>"

Truthy(v) == v # NoneVal /\ v # ""

\* Python `a or b`
PyOr(a, b) == IF Truthy(a) THEN a ELSE b

------------------------------------------------------------------------------
(* Credentials: src/chains.py lines 23-31 and 79-94 *)

SecretNames == {"GROQ_API_KEY", "GROQ_API_KEY_FAST", "GROQ_API_KEY_HEAVY", "GEMINI_API_KEY"}

\* a distinct non-empty key per name and per layer, so that a claim can tell
\* which credential a candidate carries
StoreKey(name) ==
    CASE name = "GROQ_API_KEY"       -> "st-base"
      [] name = "GROQ_API_KEY_FAST"  -> "st-fast"
      [] name = "GROQ_API_KEY_HEAVY" -> "st-heavy"
      [] name = "GEMINI_API_KEY"     -> "st-gemini"

EnvKey(name) ==
    CASE name = "GROQ_API_KEY"       -> "env-base"
      [] name = "GROQ_API_KEY_FAST"  -> "env-fast"
      [] name = "GROQ_API_KEY_HEAVY" -> "env-heavy"
      [] name = "GEMINI_API_KEY"     -> "env-gemini"

\* mutant: the store is read whether or not it is there and answers
StoreLookup_IgnoreMode(name) == store[name]

\* st.secrets.get(name) inside try/except: a raising lookup leaves val = None
StoreLookup(name) ==
    IF stMode = "ok" THEN store[name] ELSE NoneVal

\* _get_secret(name): `return val or os.getenv(name)`
GetSecret(name) == PyOr(StoreLookup(name), env[name])

NoChain ==
    [constructed |-> FALSE, fast_key |-> NoneVal, heavy_key |-> NoneVal,
     gemini_key |-> NoneVal, fast_model |-> "", heavy_model |-> "",
     gemini_model |-> ""]

\* mutant: any of the four keys passes the check
NoCredential_AnyKey(base_key, gemini_key) ==
    /\ ~Truthy(base_key)
    /\ ~Truthy(gemini_key)
    /\ ~Truthy(GetSecret("GROQ_API_KEY_FAST"))
    /\ ~Truthy(GetSecret("GROQ_API_KEY_HEAVY"))

\* mutant: the Gemini key is not looked at
NoCredential_BaseOnly(base_key, gemini_key) == ~Truthy(base_key)

\* `if not base_key and not gemini_key: raise ValueError`
NoCredential(base_key, gemini_key) == ~Truthy(base_key) /\ ~Truthy(gemini_key)

\* mutant: the fast key does not fall back to the base key
NewChain_NoFallback(base_key, gemini_key) ==
    [constructed  |-> TRUE,
     fast_key     |-> GetSecret("GROQ_API_KEY_FAST"),
     heavy_key    |-> PyOr(GetSecret("GROQ_API_KEY_HEAVY"), base_key),
     gemini_key   |-> gemini_key,
     fast_model   |-> "llama-3.1-8b-instant",
     heavy_model  |-> "llama-3.3-70b-versatile",
     gemini_model |-> "gemini-1.5-flash"]

\* the object Chain.__init__ leaves behind when it does not raise
NewChain(base_key, gemini_key) ==
    [constructed  |-> TRUE,
     fast_key     |-> PyOr(GetSecret("GROQ_API_KEY_FAST"), base_key),
     heavy_key    |-> PyOr(GetSecret("GROQ_API_KEY_HEAVY"), base_key),
     gemini_key   |-> gemini_key,
     fast_model   |-> "llama-3.1-8b-instant",
     heavy_model  |-> "llama-3.3-70b-versatile",
     gemini_model |-> "gemini-1.5-flash"]

\* a candidate: the tuple (provider, api_key, model) of the code
Cand(provider, api_key, model) ==
    [provider |-> provider, api_key |-> api_key, model |-> model]

\* extract_jobs lines 112-122
ExtractAttempts(c) ==
    (IF Truthy(c.fast_key) THEN << Cand("groq", c.fast_key, c.fast_model) >> ELSE << >>)
    \o (IF Truthy(c.heavy_key) THEN << Cand("groq", c.heavy_key, c.heavy_model) >> ELSE << >>)
    \o (IF Truthy(c.gemini_key) THEN << Cand("gemini", c.gemini_key, c.gemini_model) >> ELSE << >>)

\* mutant: write_mail prefers the fast model, as extract_jobs does
WriteAttempts_FastFirst(c) == ExtractAttempts(c)

\* write_mail lines 154-160
WriteAttempts(c) ==
    (IF Truthy(c.heavy_key) THEN << Cand("groq", c.heavy_key, c.heavy_model) >> ELSE << >>)
    \o (IF Truthy(c.fast_key) THEN << Cand("groq", c.fast_key, c.fast_model) >> ELSE << >>)
    \o (IF Truthy(c.gemini_key) THEN << Cand("gemini", c.gemini_key, c.gemini_model) >> ELSE << >>)

------------------------------------------------------------------------------
(* Exceptions and their messages *)

Err(kind, cand, try, msg) == [kind |-> kind, cand |-> cand, try |-> try, msg |-> msg]

NoError == Err("none", "", 0, << >>)

\* line 85: raise ValueError("No API key found. ...")
ConfigError == Err("ValueError", "", 0, << "No", "API", "key", "found" >>)

\* line 139: RuntimeError("Extraction failed on all providers.")
ExtractionFailed == Err("RuntimeError", "", 0, << "Extraction", "failed" >>)

\* line 178: RuntimeError("Email writing failed on all providers.")
WritingFailed == Err("RuntimeError", "", 0, << "Email", "writing", "failed" >>)

\* str.lower() on one word of a message
Lower(tok) ==
    CASE tok = "Rate limit" -> "rate limit"
      [] tok = "RATE LIMIT" -> "rate limit"
      [] tok = "Quota"      -> "quota"
      [] tok = "EXCEEDED"   -> "exceeded"
      [] tok = "Exceeded"   -> "exceeded"
      [] tok = "Unauthorized" -> "unauthorized"
      [] tok = "Connection" -> "connection"
      [] OTHER -> tok

\* line 60: the markers of a transient failure
RateLimitMarkers == {"rate limit", "429", "quota", "exceeded"}

\* line 58-60: any(k in str(e).lower() for k in [...])
IsRateLimit(msg) == \E i \in DOMAIN msg : Lower(msg[i]) \in RateLimitMarkers

------------------------------------------------------------------------------
(* Responses and the JSON parser (langchain's JsonOutputParser.parse) *)

Resp(hasContent, text) == [hasContent |-> hasContent, text |-> text]

NoRes == Resp(FALSE, << "<no response>" >>)

\* getattr(res, "content", res): the text of a message, or the str itself
ContentOf(r) == r.text

JVal(kind, name, items) == [kind |-> kind, name |-> name, items |-> items]

ObjectToks == {"A", "B"}
ScalarToks == {"7"}

IsValueTok(t) == t \in ObjectToks \cup ScalarToks

ValueOf(t) == IF t \in ObjectToks THEN JVal("obj", t, << >>) ELSE JVal("scalar", t, << >>)

\* the items between the brackets: value (, value)*
ItemsOk(inner) ==
    /\ Len(inner) % 2 = 1
    /\ \A i \in DOMAIN inner :
         IF i % 2 = 1 THEN IsValueTok(inner[i]) ELSE inner[i] = ","

ItemsOf(inner) == [k \in 1..((Len(inner) + 1) \div 2) |-> ValueOf(inner[2 * k - 1])]

\* parse(text): [ok, val]; ok = FALSE stands for OutputParserException
ParseJson(text) ==
    IF Len(text) = 1 /\ IsValueTok(text[1])
    THEN [ok |-> TRUE, val |-> ValueOf(text[1])]
    ELSE IF Len(text) >= 2 /\ text[1] = "[" /\ text[Len(text)] = "]"
    THEN LET inner == SubSeq(text, 2, Len(text) - 1) IN
         IF inner = << >>
         THEN [ok |-> TRUE, val |-> JVal("list", "", << >>)]
         ELSE IF ItemsOk(inner)
         THEN [ok |-> TRUE, val |-> JVal("list", "", ItemsOf(inner))]
         ELSE [ok |-> FALSE, val |-> JVal("none", "", << >>)]
    ELSE [ok |-> FALSE, val |-> JVal("none", "", << >>)]

\* mutant: every parsed value is wrapped
Normalize_AlwaysWrap(parsed) == << parsed >>

\* mutant: an empty list counts as no list
Normalize_WrapEmpty(parsed) ==
    IF parsed.kind = "list" /\ parsed.items # << >> THEN parsed.items ELSE << parsed >>

\* line 134: `parsed if isinstance(parsed, list) else [parsed]`
Normalize(parsed) == IF parsed.kind = "list" THEN parsed.items ELSE << parsed >>

------------------------------------------------------------------------------
(* The mocked providers *)

Retries == 1          \* retries=1 at both call sites of _invoke_with_retry
MaxRetries == 2       \* largest `retries` tried on the wrapper alone

OkOut(r) == [ok |-> TRUE, res |-> r, msg |-> << >>]
ErrOut(m) == [ok |-> FALSE, res |-> NoRes, msg |-> m]

ModelNames == {"llama-3.1-8b-instant", "llama-3.3-70b-versatile", "gemini-1.5-flash"}

\* messages of failing invocations
RateLimitMsgs == { << "Rate limit", "reached" >>, << "Error", "429" >>,
                   << "Quota", "exhausted" >>, << "tokens", "EXCEEDED" >> }
OtherMsgs == { << "401", "Unauthorized" >>, << "Connection", "reset" >> }

\* responses of succeeding invocations
Responses == { Resp(TRUE, << "[", "A", ",", "B", "]" >>),   \* a list of two postings
               Resp(TRUE, << "A" >>),                        \* a single object
               Resp(TRUE, << "[", "]" >>),                   \* an empty list
               Resp(TRUE, << "[", "A" >>),                   \* malformed
               Resp(TRUE, << "7" >>),                        \* JSON, but no posting
               Resp(FALSE, << "B" >>) }                      \* a plain str, no .content

\* what a pipeline candidate's invoke does, call after call (Retries + 1 calls at most);
\* the second call is only looked at after a rate-limit failure of the first
PipelineOuts ==
    { << o, ErrOut(<< "unused" >>) >> :
         o \in {OkOut(r) : r \in Responses} \cup {ErrOut(<< "401", "Unauthorized" >>)} }
    \cup
    { << ErrOut(<< "Rate limit", "reached" >>), o >> :
         o \in {OkOut(Resp(TRUE, << "[", "A", ",", "B", "]" >>)), OkOut(Resp(TRUE, << "[", "A" >>)),
                ErrOut(<< "Error", "429" >>), ErrOut(<< "Connection", "reset" >>)} }

\* ctor: how the client constructor calls end: "ok"; "typeerror-ok" (the first keyword
\* convention raises TypeError, the alternate one works); "error" (raises)
PipelineBehaviours ==
    { [ctor |-> "ok", outs |-> os] : os \in PipelineOuts }
    \cup { [ctor |-> "typeerror-ok", outs |-> << OkOut(Resp(TRUE, << "A" >>)), ErrOut(<< "unused" >>) >>],
           [ctor |-> "error", outs |-> << ErrOut(<< "unused" >>), ErrOut(<< "unused" >>) >>] }

DefaultBehaviour == [ctor |-> "ok", outs |-> << OkOut(Resp(TRUE, << "A" >>)), ErrOut(<< "unused" >>) >>]

\* what the wrapper's handle does on its n-th invoke
RetryOutcomes ==
    {OkOut(Resp(TRUE, << "A" >>)), OkOut(Resp(TRUE, << "B" >>))} \cup {ErrOut(m) : m \in RateLimitMsgs \cup OtherMsgs}

NoHandle == [model |-> "", outs |-> << >>]

\* _make_groq_llm: ChatGroq(api_key=...), on TypeError ChatGroq(groq_api_key=...)
MakeGroqLlm(api_key, model) ==
    LET b == behav[model] IN
    IF b.ctor \in {"ok", "typeerror-ok"}
    THEN [ok |-> TRUE, handle |-> [model |-> model, outs |-> b.outs], err |-> NoError]
    ELSE [ok |-> FALSE, handle |-> NoHandle, err |-> Err("ctor", model, 0, << "ctor", b.ctor >>)]

\* _make_gemini_llm: one call, no retry under another convention
MakeGeminiLlm(api_key, model) ==
    LET b == behav[model] IN
    IF b.ctor = "ok"
    THEN [ok |-> TRUE, handle |-> [model |-> model, outs |-> b.outs], err |-> NoError]
    ELSE [ok |-> FALSE, handle |-> NoHandle, err |-> Err("ctor", model, 0, << "ctor", b.ctor >>)]

\* lines 127-130
MakeLlm(c) ==
    IF c.provider = "groq" THEN MakeGroqLlm(c.api_key, c.model)
    ELSE MakeGeminiLlm(c.api_key, c.model)

------------------------------------------------------------------------------
(* Arguments and prompt payloads *)

\* str(job): the dict rendered as text
StrOf(job) == << "{", "role", ":", job.role, ",", "tone", ":", job.tone, "}" >>

\* line 132: {"page_data": cleaned_text}
ExtractPayload(cleaned_text) == [key |-> "page_data", value |-> cleaned_text]

\* mutant: the links are rendered after the job
WritePayload_WithLinks(job) == [key |-> "job_description", value |-> StrOf(job) \o args.links]

\* line 170: {"job_description": str(job)}
WritePayload(job) == [key |-> "job_description", value |-> StrOf(job)]

NoPayload == [key |-> "", value |-> << >>]

\* the arguments the UI passes: the cleaned page, a job with its tone, no links
Jobs == { [role |-> "Engineer", tone |-> "Formal"], [role |-> "Analyst", tone |-> "Friendly"] }

LinkLists == { << >>, << "https://a", "https://b" >> }

DefaultArgs ==
    [cleaned_text |-> << "careers", "page" >>,
     job |-> [role |-> "Engineer", tone |-> "Formal"],
     links |-> << >>]

------------------------------------------------------------------------------
(* History *)

Ev(ev, cand, n) == [ev |-> ev, cand |-> cand, n |-> n]

------------------------------------------------------------------------------
(* Chain.__init__ : lines 79-97 *)

ChainInit ==
    /\ pc = "start"
    /\ LET base_key == GetSecret("GROQ_API_KEY")
           gemini_key == GetSecret("GEMINI_API_KEY")
       IN IF NoCredential(base_key, gemini_key)
          THEN /\ exc' = ConfigError
               /\ pc' = "ctor_failed"
               /\ chain' = chain
          ELSE /\ chain' = NewChain(base_key, gemini_key)
               /\ pc' = "idle"
               /\ exc' = exc
    /\ UNCHANGED << stMode, store, env, behav, args, payload, done, shown,
                    op, attempts, idx, last_error,
                    handle, retries, tryNo, last, res, result, log >>

------------------------------------------------------------------------------
(* _invoke_with_retry : lines 51-64 *)

\* the wrapper is entered with a fresh loop
EnterRetry(h, r, p) ==
    /\ handle' = h
    /\ retries' = r
    /\ payload' = p
    /\ tryNo' = 0
    /\ last' = NoError

\* mutant: every failure is retried
Transient_RetryAll(msg) == TRUE

\* whether a failed attempt is followed by sleep-and-continue (line 60)
Transient(msg) == IsRateLimit(msg)

\* mutant: range(retries) instead of range(retries + 1)
LoopContinues_OffByOne(n, r) == n < r

\* whether the for loop of line 54 has another iteration after `n` attempts
LoopContinues(n, r) == n < r + 1

\* mutant: `last` keeps the first error of the call
Invoke_KeepFirstError ==
    /\ pc = "invoke"
    /\ LET n == tryNo + 1
           o == handle.outs[n]
           e == Err("invoke", handle.model, n, o.msg)
       IN /\ tryNo' = n
          /\ log' = Append(log, Ev("invoke", handle.model, n))
          /\ IF o.ok
             THEN /\ res' = o.res
                  /\ pc' = "wrapper_returned"
                  /\ UNCHANGED << last, exc >>
             ELSE /\ last' = IF last = NoError THEN e ELSE last
                  /\ res' = res
                  /\ IF Transient(o.msg)
                     THEN /\ pc' = "sleep"
                          /\ exc' = exc
                     ELSE /\ pc' = "wrapper_raised"
                          /\ exc' = e
    /\ UNCHANGED << stMode, store, env, behav, args, payload, done, shown,
                    chain, op, attempts, idx, last_error, handle, retries, result >>

\* one iteration of the loop up to the classification: lines 55-60, 63
Invoke ==
    /\ pc = "invoke"
    /\ LET n == tryNo + 1
           o == handle.outs[n]
           e == Err("invoke", handle.model, n, o.msg)
       IN /\ tryNo' = n
          /\ log' = Append(log, Ev("invoke", handle.model, n))
          /\ IF o.ok
             THEN /\ res' = o.res
                  /\ pc' = "wrapper_returned"
                  /\ UNCHANGED << last, exc >>
             ELSE /\ last' = e
                  /\ res' = res
                  /\ IF Transient(o.msg)
                     THEN /\ pc' = "sleep"
                          /\ exc' = exc
                     ELSE /\ pc' = "wrapper_raised"
                          /\ exc' = e
    /\ UNCHANGED << stMode, store, env, behav, args, payload, done, shown,
                    chain, op, attempts, idx, last_error,
                    handle, retries, result >>

\* lines 61-62, then the next iteration or line 64 (`raise last`)
Sleep ==
    /\ pc = "sleep"
    /\ log' = Append(log, Ev("sleep", handle.model, tryNo))
    /\ IF LoopContinues(tryNo, retries)
       THEN /\ pc' = "invoke"
            /\ exc' = exc
       ELSE /\ pc' = "wrapper_raised"
            /\ exc' = last
    /\ UNCHANGED << stMode, store, env, behav, args, payload, done, shown,
                    chain, op, attempts, idx, last_error,
                    handle, retries, tryNo, last, res, result >>

------------------------------------------------------------------------------
(* Chain.extract_jobs : lines 100-139 *)

\* lines 112-124: the candidate list and last_error = None
ExtractBegin ==
    /\ pc = "idle"
    /\ chain.constructed
    /\ op' = "extract"
    /\ attempts' = ExtractAttempts(chain)
    /\ idx' = 1
    /\ last_error' = NoError
    /\ pc' = "loop"
    /\ UNCHANGED << stMode, store, env, behav, args, payload, done, shown,
                    chain, handle, retries, tryNo, last,
                    res, result, exc, log >>

\* lines 125-132: the next candidate's client; a raising constructor is caught by
\* lines 135-137
ExtractMakeClient ==
    /\ pc = "loop"
    /\ op = "extract"
    /\ idx <= Len(attempts)
    /\ LET c == attempts[idx]
           made == MakeLlm(c)
       IN /\ log' = Append(log, Ev("construct", c.model, 0))
          /\ IF made.ok
             THEN /\ EnterRetry(made.handle, Retries, ExtractPayload(args.cleaned_text))
                  /\ pc' = "invoke"
                  /\ UNCHANGED << idx, last_error >>
             ELSE /\ last_error' = made.err
                  /\ idx' = idx + 1
                  /\ pc' = "loop"
                  /\ UNCHANGED << handle, retries, tryNo, last, payload >>
    /\ UNCHANGED << stMode, store, env, behav, args, done, shown, chain, op, attempts,
                    res, result, exc >>

\* mutant: a parsed result is kept but the loop goes on to the next candidate
ExtractParse_NoReturn ==
    /\ pc = "wrapper_returned"
    /\ op = "extract"
    /\ LET parsed == ParseJson(ContentOf(res))
       IN IF parsed.ok
          THEN /\ result' = Normalize(parsed.val)
               /\ last_error' = last_error
          ELSE /\ last_error' = Err("parse", handle.model, tryNo, ContentOf(res))
               /\ result' = result
    /\ idx' = idx + 1
    /\ pc' = "loop"
    /\ UNCHANGED << stMode, store, env, behav, args, payload, done, shown,
                    chain, op, attempts, handle, retries,
                    tryNo, last, res, exc, log >>

\* lines 133-134, and lines 135-137 when the parser raises
ExtractParse ==
    /\ pc = "wrapper_returned"
    /\ op = "extract"
    /\ LET parsed == ParseJson(ContentOf(res))
       IN IF parsed.ok
          THEN /\ result' = Normalize(parsed.val)
               /\ pc' = "returned"
               /\ UNCHANGED << idx, last_error >>
          ELSE /\ last_error' = Err("parse", handle.model, tryNo, ContentOf(res))
               /\ idx' = idx + 1
               /\ pc' = "loop"
               /\ result' = result
    /\ UNCHANGED << stMode, store, env, behav, args, payload, done, shown,
                    chain, op, attempts, handle, retries,
                    tryNo, last, res, exc, log >>

\* mutant: only the first error is recorded
ExtractCatch_KeepFirst ==
    /\ pc = "wrapper_raised"
    /\ op = "extract"
    /\ last_error' = IF last_error = NoError THEN exc ELSE last_error
    /\ exc' = NoError
    /\ idx' = idx + 1
    /\ pc' = "loop"
    /\ UNCHANGED << stMode, store, env, behav, args, payload, done, shown,
                    chain, op, attempts, handle, retries,
                    tryNo, last, res, result, log >>

\* mutant: the first candidate that fails is tried once more
ExtractCatch_RetryFirst ==
    /\ pc = "wrapper_raised"
    /\ op = "extract"
    /\ last_error' = exc
    /\ exc' = NoError
    /\ idx' = IF last_error = NoError THEN idx ELSE idx + 1
    /\ pc' = "loop"
    /\ UNCHANGED << stMode, store, env, behav, args, payload, done, shown,
                    chain, op, attempts, handle, retries,
                    tryNo, last, res, result, log >>

\* lines 135-137: the wrapper's exception is recorded, the loop goes on
ExtractCatch ==
    /\ pc = "wrapper_raised"
    /\ op = "extract"
    /\ last_error' = exc
    /\ exc' = NoError
    /\ idx' = idx + 1
    /\ pc' = "loop"
    /\ UNCHANGED << stMode, store, env, behav, args, payload, done, shown,
                    chain, op, attempts, handle, retries,
                    tryNo, last, res, result, log >>

\* mutant: the first recorded error is raised at once
ExtractExhausted_Early ==
    /\ pc = "loop"
    /\ op = "extract"
    /\ idx > Len(attempts) \/ last_error # NoError
    /\ exc' = IF last_error # NoError THEN last_error ELSE ExtractionFailed
    /\ pc' = "raised"
    /\ UNCHANGED << stMode, store, env, behav, args, payload, done, shown,
                    chain, op, attempts, idx, last_error, handle, retries, tryNo, last,
                    res, result, log >>

\* line 139: raise last_error or RuntimeError(...)
ExtractExhausted ==
    /\ pc = "loop"
    /\ op = "extract"
    /\ idx > Len(attempts)
    /\ exc' = IF last_error # NoError THEN last_error ELSE ExtractionFailed
    /\ pc' = "raised"
    /\ UNCHANGED << stMode, store, env, behav, args, payload, done, shown,
                    chain, op, attempts, idx, last_error,
                    handle, retries, tryNo, last, res, result, log >>

------------------------------------------------------------------------------
(* Chain.write_mail : lines 142-178.  In src/chains.py the statements of lines      *)
(* 143-178 stand at the indentation of the def of line 142; they are modelled as *)
(* the body of the method, which is what they are written to be.                 *)

\* mutant: an empty list of links is refused
WriteBegin_NeedsLinks ==
    /\ pc = "idle"
    /\ chain.constructed
    /\ op' = "write"
    /\ attempts' = WriteAttempts(chain)
    /\ idx' = 1
    /\ last_error' = NoError
    /\ IF args.links = << >>
       THEN /\ exc' = Err("ValueError", "", 0, << "no", "links" >>)
            /\ pc' = "raised"
       ELSE /\ exc' = exc
            /\ pc' = "loop"
    /\ UNCHANGED << stMode, store, env, behav, args, payload, done, shown,
                    chain, handle, retries, tryNo, last,
                    res, result, log >>

\* lines 154-162
WriteBegin ==
    /\ pc = "idle"
    /\ chain.constructed
    /\ op' = "write"
    /\ attempts' = WriteAttempts(chain)
    /\ idx' = 1
    /\ last_error' = NoError
    /\ pc' = "loop"
    /\ UNCHANGED << stMode, store, env, behav, args, payload, done, shown,
                    chain, handle, retries, tryNo, last,
                    res, result, exc, log >>

\* lines 163-172
WriteMakeClient ==
    /\ pc = "loop"
    /\ op = "write"
    /\ idx <= Len(attempts)
    /\ LET c == attempts[idx]
           made == MakeLlm(c)
       IN /\ log' = Append(log, Ev("construct", c.model, 0))
          /\ IF made.ok
             THEN /\ EnterRetry(made.handle, Retries, WritePayload(args.job))
                  /\ pc' = "invoke"
                  /\ UNCHANGED << idx, last_error >>
             ELSE /\ last_error' = made.err
                  /\ idx' = idx + 1
                  /\ pc' = "loop"
                  /\ UNCHANGED << handle, retries, tryNo, last, payload >>
    /\ UNCHANGED << stMode, store, env, behav, args, done, shown, chain, op, attempts,
                    res, result, exc >>

\* mutant: the text is kept but the loop goes on to the next candidate
WriteReturn_FallThrough ==
    /\ pc = "wrapper_returned"
    /\ op = "write"
    /\ result' = ContentOf(res)
    /\ idx' = idx + 1
    /\ pc' = "loop"
    /\ UNCHANGED << stMode, store, env, behav, args, payload, done, shown,
                    chain, op, attempts, last_error, handle, retries, tryNo, last, res,
                    exc, log >>

\* line 173: return getattr(res, "content", str(res))
WriteReturn ==
    /\ pc = "wrapper_returned"
    /\ op = "write"
    /\ result' = ContentOf(res)
    /\ pc' = "returned"
    /\ UNCHANGED << stMode, store, env, behav, args, payload, done, shown,
                    chain, op, attempts, idx, last_error,
                    handle, retries, tryNo, last, res, exc, log >>

\* mutant: only the first error is recorded
WriteCatch_KeepFirst ==
    /\ pc = "wrapper_raised"
    /\ op = "write"
    /\ last_error' = IF last_error = NoError THEN exc ELSE last_error
    /\ exc' = NoError
    /\ idx' = idx + 1
    /\ pc' = "loop"
    /\ UNCHANGED << stMode, store, env, behav, args, payload, done, shown,
                    chain, op, attempts, handle, retries, tryNo, last, res, result, log >>

\* mutant: the key of a failing first candidate is forgotten
WriteCatch_DropKey ==
    /\ pc = "wrapper_raised"
    /\ op = "write"
    /\ last_error' = exc
    /\ exc' = NoError
    /\ idx' = idx + 1
    /\ pc' = "loop"
    /\ chain' = IF idx = 1 THEN [chain EXCEPT !.heavy_key = NoneVal] ELSE chain
    /\ UNCHANGED << stMode, store, env, behav, args, payload, done, shown,
                    op, attempts, handle, retries,
                    tryNo, last, res, result, log >>

\* lines 174-176
WriteCatch ==
    /\ pc = "wrapper_raised"
    /\ op = "write"
    /\ last_error' = exc
    /\ exc' = NoError
    /\ idx' = idx + 1
    /\ pc' = "loop"
    /\ UNCHANGED << stMode, store, env, behav, args, payload, done, shown,
                    chain, op, attempts, handle, retries,
                    tryNo, last, res, result, log >>

\* line 178
WriteExhausted ==
    /\ pc = "loop"
    /\ op = "write"
    /\ idx > Len(attempts)
    /\ exc' = IF last_error # NoError THEN last_error ELSE WritingFailed
    /\ pc' = "raised"
    /\ UNCHANGED << stMode, store, env, behav, args, payload, done, shown,
                    chain, op, attempts, idx, last_error,
                    handle, retries, tryNo, last, res, result, log >>

------------------------------------------------------------------------------
(* Specifications *)

\* everything but the inputs, as it is before the program runs
InitLocals ==
    /\ chain = NoChain
    /\ op = "none"
    /\ attempts = << >>
    /\ idx = 0
    /\ last_error = NoError
    /\ handle = NoHandle
    /\ retries = 0
    /\ tryNo = 0
    /\ last = NoError
    /\ res = NoRes
    /\ result = << >>
    /\ exc = NoError
    /\ log = << >>
    /\ payload = NoPayload
    /\ done = << >>
    /\ shown = "none"

\* the credential layerings the pipelines are run under: every presence pattern of
\* the four names in the environment with no secret store, and a present store
\* (working or raising) holding one key or only empty strings over an empty environment
StoreOnly(name) == [n \in SecretNames |-> IF n = name THEN StoreKey(n) ELSE NoneVal]

InitSecrets ==
    \/ /\ stMode = "absent"
       /\ store = [n \in SecretNames |-> NoneVal]
       /\ \E present \in [SecretNames -> BOOLEAN] :
             env = [n \in SecretNames |-> IF present[n] THEN EnvKey(n) ELSE NoneVal]
    \/ /\ stMode \in {"ok", "raises"}
       /\ store \in {StoreOnly("GROQ_API_KEY"), StoreOnly("GEMINI_API_KEY"),
                     [n \in SecretNames |-> ""]}
       /\ env = [n \in SecretNames |-> NoneVal]

\* the pipelines, under every provider behaviour
Init ==
    /\ InitSecrets
    /\ behav \in [ModelNames -> PipelineBehaviours]
    /\ args = DefaultArgs
    /\ pc = "start"
    /\ InitLocals

Next ==
    \/ ChainInit
    \/ ExtractBegin
    \/ ExtractMakeClient
    \/ ExtractParse
    \/ ExtractCatch
    \/ ExtractExhausted
    \/ WriteBegin
    \/ WriteMakeClient
    \/ WriteReturn
    \/ WriteCatch
    \/ WriteExhausted
    \/ Invoke
    \/ Sleep

Spec == Init /\ [][Next]_vars

\* the credentials: every layering of store and environment, construction and the
\* two candidate lists
InitConfig ==
    /\ stMode \in {"absent", "raises", "ok"}
    /\ \E sv \in [SecretNames -> {NoneVal, "", "key"}] :
          store = [n \in SecretNames |-> IF sv[n] = "key" THEN StoreKey(n) ELSE sv[n]]
    /\ \E ev \in [SecretNames -> {NoneVal, "", "key"}] :
          env = [n \in SecretNames |-> IF ev[n] = "key" THEN EnvKey(n) ELSE ev[n]]
    /\ behav = [m \in ModelNames |-> DefaultBehaviour]
    /\ args = DefaultArgs
    /\ pc = "start"
    /\ InitLocals

NextConfig ==
    \/ ChainInit
    \/ ExtractBegin
    \/ WriteBegin

SpecConfig == InitConfig /\ [][NextConfig]_vars

------------------------------------------------------------------------------
(* The caller: src/main.py keeps one Chain in the session and calls its methods *)
(* again and again, inside one try/except                                       *)

MaxCalls == 2         \* calls made on one Chain in a session

\* main.py line 360: `"rate limit" in msg or "429" in msg`
UIMarkers == {"rate limit", "429"}

\* main.py lines 358-366: the except handler picks the message to show
UIExcept ==
    /\ pc = "raised"
    /\ shown' = IF \E i \in DOMAIN exc.msg : Lower(exc.msg[i]) \in UIMarkers
                THEN "advice"
                ELSE "generic"
    /\ pc' = "ui_done"
    /\ UNCHANGED << stMode, store, env, behav, args, payload, done,
                    chain, op, attempts, idx, last_error, handle, retries, tryNo, last,
                    res, result, exc, log >>

\* main.py lines 309 and 316-342: the call is over, its locals are gone, and the
\* caller goes on to its next call on the same Chain, with arguments of its choice
CallerContinues ==
    /\ pc \in {"returned", "ui_done"}
    /\ Len(done) + 1 < MaxCalls
    /\ done' = Append(done, [op |-> op, args |-> args, chain |-> chain, result |-> result,
                             exc |-> exc, payload |-> payload, log |-> log])
    /\ \E j \in Jobs, l \in LinkLists : args' = [args EXCEPT !.job = j, !.links = l]
    /\ op' = "none"
    /\ attempts' = << >>
    /\ idx' = 0
    /\ last_error' = NoError
    /\ handle' = NoHandle
    /\ retries' = 0
    /\ tryNo' = 0
    /\ last' = NoError
    /\ res' = NoRes
    /\ result' = << >>
    /\ exc' = NoError
    /\ log' = << >>
    /\ payload' = NoPayload
    /\ shown' = "none"
    /\ pc' = "idle"
    /\ UNCHANGED << stMode, store, env, behav, chain >>

\* what a candidate's provider does in the calls of one session
CallOuts ==
    { << OkOut(Resp(TRUE, << "A" >>)), ErrOut(<< "unused" >>) >>,
      << OkOut(Resp(TRUE, << >>)), ErrOut(<< "unused" >>) >>,
      << ErrOut(<< "401", "Unauthorized" >>), ErrOut(<< "unused" >>) >>,
      << ErrOut(<< "Rate limit", "reached" >>), OkOut(Resp(TRUE, << "B" >>)) >>,
      << ErrOut(<< "Error", "429" >>), ErrOut(<< "Quota", "exhausted" >>) >>,
      << ErrOut(<< "tokens", "EXCEEDED" >>), ErrOut(<< "Error", "429" >>) >> }

CallBehaviours ==
    { [ctor |-> "ok", outs |-> os] : os \in CallOuts }
    \cup { [ctor |-> "error", outs |-> << ErrOut(<< "unused" >>), ErrOut(<< "unused" >>) >>] }

\* a session: every candidate configured, or Gemini alone; the first call's links vary
InitCalls ==
    /\ stMode = "absent"
    /\ store = [n \in SecretNames |-> NoneVal]
    /\ env \in { [n \in SecretNames |-> EnvKey(n)],
                  [n \in SecretNames |-> IF n = "GEMINI_API_KEY" THEN EnvKey(n) ELSE NoneVal] }
    /\ behav \in [ModelNames -> CallBehaviours]
    /\ \E l \in LinkLists : args = [DefaultArgs EXCEPT !.links = l]
    /\ pc = "start"
    /\ InitLocals

NextCalls ==
    \/ ChainInit
    \/ ExtractBegin
    \/ ExtractMakeClient
    \/ ExtractParse
    \/ ExtractCatch
    \/ ExtractExhausted
    \/ WriteBegin
    \/ WriteMakeClient
    \/ WriteReturn
    \/ WriteCatch
    \/ WriteExhausted
    \/ Invoke
    \/ Sleep
    \/ UIExcept
    \/ CallerContinues

SpecCalls == InitCalls /\ [][NextCalls]_vars

\* the pipelines as a running program: the interpreter takes the next step of the
\* call as long as there is one, every constructor, invoke and sleep returning or
\* raising
InitLive ==
    /\ InitSecrets
    /\ behav \in [ModelNames -> CallBehaviours]
    /\ args = DefaultArgs
    /\ pc = "start"
    /\ InitLocals

SpecLive == InitLive /\ [][Next]_vars /\ WF_vars(Next)

\* a call of _get_secret(name) on its own, lines 23-31: it returns, whatever the store does
CallGetSecret ==
    /\ pc = "start"
    /\ \E name \in SecretNames :
          result' = << name, GetSecret(name) >>
    /\ op' = "secret"
    /\ pc' = "returned"
    /\ UNCHANGED << stMode, store, env, behav, args, payload, done, shown,
                    chain, attempts, idx, last_error, handle, retries, tryNo, last,
                    res, exc, log >>

\* the resolver alone, under every layering of store and environment
NextSecret == CallGetSecret

SpecSecret == InitConfig /\ [][NextSecret]_vars

\* the wrapper alone, on a handle with any script of outcomes
InitRetry ==
    /\ stMode = "absent"
    /\ store = [n \in SecretNames |-> NoneVal]
    /\ env = [n \in SecretNames |-> NoneVal]
    /\ behav = [m \in ModelNames |-> DefaultBehaviour]
    /\ chain = NoChain
    /\ op = "retry"
    /\ attempts = << >>
    /\ idx = 0
    /\ last_error = NoError
    /\ retries \in 0..MaxRetries
    /\ handle \in { [model |-> "mock", outs |-> os] : os \in [1..(MaxRetries + 1) -> RetryOutcomes] }
    /\ tryNo = 0
    /\ last = NoError
    /\ res = NoRes
    /\ result = << >>
    /\ exc = NoError
    /\ log = << >>
    /\ args = DefaultArgs
    /\ payload = ExtractPayload(args.cleaned_text)
    /\ done = << >>
    /\ shown = "none"
    /\ pc = "invoke"

NextRetry ==
    \/ Invoke
    \/ Sleep

SpecRetry == InitRetry /\ [][NextRetry]_vars

------------------------------------------------------------------------------
(* What the claims speak of, stated over the mocked inputs and the history *)

\* the message, lower-cased, contains one of the four markers
Flavored(msg) ==
    \E i \in DOMAIN msg : Lower(msg[i]) \in {"rate limit", "429", "quota", "exceeded"}

\* a failing outcome with / without a rate-limit marker
RateLimited(o) == ~o.ok /\ Flavored(o.msg)
NonTransient(o) == ~o.ok /\ ~Flavored(o.msg)

\* the first of the r + 1 scripted outcomes that is not a rate-limit failure, or the
\* last of them
Decisive(outs, r) ==
    IF \E n \in 1..(r + 1) : ~RateLimited(outs[n])
    THEN CHOOSE n \in 1..(r + 1) :
             /\ ~RateLimited(outs[n])
             /\ \A m \in 1..(n - 1) : RateLimited(outs[m])
    ELSE r + 1

\* the constructor of candidate c yields a client
CtorWorks(c) ==
    IF c.provider = "groq" THEN behav[c.model].ctor \in {"ok", "typeerror-ok"}
    ELSE behav[c.model].ctor = "ok"

\* what the provider of candidate c answers in the end, under the pipelines' retries
CandOutcome(c) == behav[c.model].outs[Decisive(behav[c.model].outs, Retries)]

\* candidate c succeeds: the invocation returns and the response parses
CandSucceeds(c) ==
    /\ CtorWorks(c)
    /\ CandOutcome(c).ok
    /\ ParseJson(CandOutcome(c).res.text).ok

Succeeding == {i \in DOMAIN attempts : CandSucceeds(attempts[i])}

FirstSuccess == CHOOSE i \in Succeeding : \A j \in Succeeding : i <= j

\* position of a model in the candidate list (model names are distinct)
PosOf(m) == CHOOSE i \in DOMAIN attempts : attempts[i].model = m

Events(ev, m) == {k \in DOMAIN log : log[k].ev = ev /\ log[k].cand = m}

------------------------------------------------------------------------------
(* Claims *)

\* C1: in extract_jobs, when at least one candidate succeeds, the value returned is
\* the one produced by the earliest succeeding candidate of the list, the call does
\* not fail, and no candidate after that one is ever constructed or invoked.
C1_FirstSuccessWins ==
    (op = "extract" /\ Succeeding # {}) =>
        /\ \A k \in DOMAIN log : PosOf(log[k].cand) <= FirstSuccess
        /\ pc # "raised"
        /\ pc = "returned" =>
              /\ idx = FirstSuccess
              /\ result = Normalize(ParseJson(CandOutcome(attempts[FirstSuccess]).res.text).val)

\* extract_jobs returned the second candidate's answer after the first one failed,
\* with a third candidate left untried
C1_Witness ==
    /\ op = "extract"
    /\ pc = "returned"
    /\ Len(attempts) = 3
    /\ Succeeding # {}
    /\ FirstSuccess = 2
    /\ CandSucceeds(attempts[3])

\* every candidate's client is built and its first invocation fails without a marker
AllNonTransient ==
    \A i \in DOMAIN attempts :
        CtorWorks(attempts[i]) /\ NonTransient(behav[attempts[i].model].outs[1])

\* C2: in extract_jobs, when every candidate's invocation raises an error without a
\* rate-limit marker, the call fails with the error of the last candidate of the
\* list, after exactly one invoke per candidate and no sleep.
C2_AllFailLastError ==
    (op = "extract" /\ AllNonTransient) =>
        /\ pc # "returned"
        /\ \A k \in DOMAIN log : log[k].ev # "sleep"
        /\ \A i \in DOMAIN attempts : Cardinality(Events("invoke", attempts[i].model)) <= 1
        /\ pc = "raised" =>
              /\ exc = Err("invoke", attempts[Len(attempts)].model, 1,
                           behav[attempts[Len(attempts)].model].outs[1].msg)
              /\ \A i \in DOMAIN attempts :
                    Cardinality(Events("invoke", attempts[i].model)) = 1

\* extract_jobs failed after three candidates each failed once
C2_Witness ==
    /\ op = "extract"
    /\ pc = "raised"
    /\ Len(attempts) = 3
    /\ AllNonTransient

\* the handle fails with a rate-limit error exactly N times, then succeeds
FailsThenSucceeds(N) ==
    /\ N + 1 <= Len(handle.outs)
    /\ \A n \in 1..N : RateLimited(handle.outs[n])
    /\ handle.outs[N + 1].ok

\* invoke, sleep, invoke, ..., sleep, invoke: N sleeps, each after a failed attempt
\* and before the next one
AlternatingLog(N) ==
    [k \in 1..(2 * N + 1) |->
        IF k % 2 = 1 THEN Ev("invoke", handle.model, (k + 1) \div 2)
        ELSE Ev("sleep", handle.model, k \div 2)]

WrapperDone == pc \in {"wrapper_returned", "wrapper_raised"}

\* C3: when the handle raises a rate-limit error exactly N times and then succeeds,
\* and retries >= N, _invoke_with_retry returns the successful response on invoke
\* N + 1, having slept exactly N times, each time between a failure and the next
\* attempt.
C3_RetryUntilSuccess ==
    \A N \in 0..retries :
        (op = "retry" /\ FailsThenSucceeds(N) /\ WrapperDone) =>
            /\ pc = "wrapper_returned"
            /\ res = handle.outs[N + 1].res
            /\ tryNo = N + 1
            /\ log = AlternatingLog(N)

\* the wrapper returned after as many rate-limit failures as it had retries
C3_Witness ==
    /\ op = "retry"
    /\ pc = "wrapper_returned"
    /\ retries >= 2
    /\ FailsThenSucceeds(retries)
    /\ Cardinality(Events("sleep", handle.model)) = retries

\* C4: in _invoke_with_retry, an attempt that fails with an error without a
\* rate-limit marker ends the call at once with that very error: it is the last
\* event of the call (no invoke and no sleep follows), whatever retries remain and
\* whatever rate-limit failures came before it.
C4_NonTransientFailsFast ==
    op = "retry" =>
        \A k \in DOMAIN log :
            (log[k].ev = "invoke" /\ NonTransient(handle.outs[log[k].n])) =>
                /\ k = Len(log)
                /\ pc = "wrapper_raised"
                /\ exc = Err("invoke", handle.model, log[k].n, handle.outs[log[k].n].msg)

\* the wrapper raised a non-transient error on its second attempt, after a
\* rate-limit failure, with a retry still left
C4_Witness ==
    /\ op = "retry"
    /\ pc = "wrapper_raised"
    /\ tryNo = 2
    /\ retries >= 2
    /\ RateLimited(handle.outs[1])
    /\ NonTransient(handle.outs[2])
    /\ exc = Err("invoke", handle.model, 2, handle.outs[2].msg)

\* C5: extract_jobs normalizes the parsed model output to a sequence: a parsed list
\* is returned with the same elements in the same order, anything else is returned
\* as the one-element sequence holding exactly that value.
C5_Normalized ==
    (op = "extract" /\ pc = "returned") =>
        LET parsed == ParseJson(ContentOf(res)) IN
        /\ parsed.ok
        /\ parsed.val.kind = "list" => result = parsed.val.items
        /\ parsed.val.kind # "list" => result = << parsed.val >>
        /\ ContentOf(res) = << "A" >> => result = << JVal("obj", "A", << >>) >>
        /\ ContentOf(res) = << "[", "A", ",", "B", "]" >> =>
              result = << JVal("obj", "A", << >>), JVal("obj", "B", << >>) >>

\* extract_jobs returned a single object wrapped in a one-element sequence
C5_Witness ==
    /\ op = "extract"
    /\ pc = "returned"
    /\ ContentOf(res) = << "A" >>
    /\ result = << JVal("obj", "A", << >>) >>

\* the model output is a JSON list without items
EmptyJsonList(text) == text = << "[", "]" >>

\* C6 as stated: whenever a candidate succeeds, the sequence extract_jobs returns is
\* nonempty, for every model output that parses, an empty JSON list included.
C6_AlwaysNonempty ==
    (op = "extract" /\ pc = "returned") => Len(result) > 0

\* C6, amended: the sequence extract_jobs returns is nonempty for every model output
\* that parses except an empty JSON list, which is returned as the empty sequence.
C6_EmptyOnlyForEmptyList ==
    (op = "extract" /\ pc = "returned") =>
        (Len(result) = 0 <=> EmptyJsonList(ContentOf(res)))

\* extract_jobs returned an empty sequence as a successful result
C6_Witness ==
    /\ op = "extract"
    /\ pc = "returned"
    /\ EmptyJsonList(ContentOf(res))
    /\ result = << >>

\* the name resolves to a non-empty value in the secret store or the environment
Resolves(name) == (stMode = "ok" /\ Truthy(store[name])) \/ Truthy(env[name])

\* the value the name resolves to
Resolved(name) == IF stMode = "ok" /\ Truthy(store[name]) THEN store[name] ELSE env[name]

\* C7: when neither GROQ_API_KEY nor GEMINI_API_KEY resolves, constructing a Chain
\* fails with the configuration error inside the constructor: no Chain object
\* exists, no pipeline method runs on it and no model client is built or invoked.
C7_NoCredentialFailsConstruction ==
    (pc # "start" /\ ~Resolves("GROQ_API_KEY") /\ ~Resolves("GEMINI_API_KEY")) =>
        /\ pc = "ctor_failed"
        /\ exc = ConfigError
        /\ ~chain.constructed
        /\ op = "none"
        /\ log = << >>

\* the constructor failed although the secret store, whose lookup raises, holds the
\* base key
C7_Witness ==
    /\ pc = "ctor_failed"
    /\ exc = ConfigError
    /\ stMode = "raises"
    /\ store["GROQ_API_KEY"] = StoreKey("GROQ_API_KEY")
    /\ ~Resolves("GROQ_API_KEY")
    /\ ~Resolves("GEMINI_API_KEY")

\* C8 as stated: for every combination of the four credentials with at least one
\* configured, the Chain is constructed and the candidate lists of extraction and
\* of drafting are nonempty.
C8_AnyCredentialSuffices ==
    (pc # "start" /\ \E n \in SecretNames : Resolves(n)) =>
        /\ pc # "ctor_failed"
        /\ chain.constructed
        /\ pc = "loop" => Len(attempts) > 0

\* C8, amended: for every combination in which GROQ_API_KEY or GEMINI_API_KEY is
\* configured, the Chain is constructed and the candidate lists of extraction and of
\* drafting are both nonempty; when only GROQ_API_KEY_FAST and/or GROQ_API_KEY_HEAVY
\* are configured, construction fails and no candidate list is built.
C8_BaseOrGeminiSuffices ==
    /\ (pc # "start" /\ (Resolves("GROQ_API_KEY") \/ Resolves("GEMINI_API_KEY"))) =>
          /\ pc # "ctor_failed"
          /\ chain.constructed
          /\ Len(ExtractAttempts(chain)) > 0
          /\ Len(WriteAttempts(chain)) > 0
          /\ pc = "loop" => Len(attempts) > 0
    /\ (pc # "start" /\ ~Resolves("GROQ_API_KEY") /\ ~Resolves("GEMINI_API_KEY")) =>
          /\ pc = "ctor_failed"
          /\ attempts = << >>

\* with only the Gemini key configured, the drafting list holds one candidate
C8_Witness ==
    /\ pc = "loop"
    /\ op = "write"
    /\ ~Resolves("GROQ_API_KEY")
    /\ ~Resolves("GROQ_API_KEY_FAST")
    /\ ~Resolves("GROQ_API_KEY_HEAVY")
    /\ Resolves("GEMINI_API_KEY")
    /\ Len(attempts) = 1

\* the credential of the fast / heavy / Gemini candidate
FastCredential ==
    IF Resolves("GROQ_API_KEY_FAST") THEN Resolved("GROQ_API_KEY_FAST")
    ELSE Resolved("GROQ_API_KEY")

HeavyCredential ==
    IF Resolves("GROQ_API_KEY_HEAVY") THEN Resolved("GROQ_API_KEY_HEAVY")
    ELSE Resolved("GROQ_API_KEY")

GeminiCredential == Resolved("GEMINI_API_KEY")

FastCandidate == Cand("groq", FastCredential, "llama-3.1-8b-instant")
HeavyCandidate == Cand("groq", HeavyCredential, "llama-3.3-70b-versatile")
GeminiCandidate == Cand("gemini", GeminiCredential, "gemini-1.5-flash")

HasCredential(c) == Truthy(c.api_key)

\* C9: the extraction candidate list is the subsequence of [Groq fast, Groq heavy,
\* Gemini] of exactly the candidates whose credential resolved, the fast candidate
\* carrying GROQ_API_KEY_FAST if present and else the base key, the heavy candidate
\* GROQ_API_KEY_HEAVY if present and else the base key.
C9_ExtractionOrder ==
    (op = "extract" /\ pc = "loop") =>
        attempts = SelectSeq(<< FastCandidate, HeavyCandidate, GeminiCandidate >>, HasCredential)

\* extraction with the base key standing in for the missing fast key, beside a heavy
\* key of its own and a Gemini key
C9_Witness ==
    /\ op = "extract"
    /\ pc = "loop"
    /\ ~Resolves("GROQ_API_KEY_FAST")
    /\ Resolves("GROQ_API_KEY_HEAVY")
    /\ Len(attempts) = 3
    /\ attempts[1].api_key = Resolved("GROQ_API_KEY")
    /\ attempts[2].api_key = Resolved("GROQ_API_KEY_HEAVY")
    /\ attempts[2].api_key # attempts[1].api_key

\* C10: the drafting candidate list of write_mail is the subsequence of [Groq heavy,
\* Groq fast, Gemini] of exactly the candidates whose credential resolved: the two
\* Groq candidates swapped with respect to extraction, Gemini still last.
C10_DraftingOrder ==
    (op = "write" /\ pc = "loop") =>
        attempts = SelectSeq(<< HeavyCandidate, FastCandidate, GeminiCandidate >>, HasCredential)

\* drafting with all three candidates: heavy first, fast second, Gemini last
C10_Witness ==
    /\ op = "write"
    /\ pc = "loop"
    /\ Len(attempts) = 3
    /\ attempts[1].model = "llama-3.3-70b-versatile"
    /\ attempts[2].model = "llama-3.1-8b-instant"
    /\ attempts[3].provider = "gemini"

\* candidate c of write_mail succeeds: the client is built and the invocation returns
WriteSucceeds(c) == CtorWorks(c) /\ CandOutcome(c).ok

WriteSucceeding == {i \in DOMAIN attempts : WriteSucceeds(attempts[i])}

FirstWriteSuccess == CHOOSE i \in WriteSucceeding : \A j \in WriteSucceeding : i <= j

\* the error candidate c ends with when its client or its invocation fails
CandError(c) ==
    IF ~CtorWorks(c) THEN Err("ctor", c.model, 0, << "ctor", behav[c.model].ctor >>)
    ELSE Err("invoke", c.model, Decisive(behav[c.model].outs, Retries), CandOutcome(c).msg)

\* C11: write_mail tries its candidates in order under the retry wrapper and returns
\* the text of the first candidate whose invocation succeeds, constructing and
\* invoking no later candidate; when every candidate fails it raises the error of
\* the last candidate tried.
C11_WriteFirstSuccessOrLastError ==
    op = "write" =>
        /\ \A k \in DOMAIN log : \A j \in DOMAIN log :
              k <= j => PosOf(log[k].cand) <= PosOf(log[j].cand)
        /\ WriteSucceeding # {} =>
              /\ \A k \in DOMAIN log : PosOf(log[k].cand) <= FirstWriteSuccess
              /\ pc # "raised"
              /\ pc = "returned" =>
                    result = CandOutcome(attempts[FirstWriteSuccess]).res.text
        /\ WriteSucceeding = {} =>
              /\ pc # "returned"
              /\ pc = "raised" => exc = CandError(attempts[Len(attempts)])

\* write_mail returned the second candidate's text after the first one failed, with a
\* third candidate left untried
C11_Witness ==
    /\ op = "write"
    /\ pc = "returned"
    /\ Len(attempts) = 3
    /\ WriteSucceeding # {}
    /\ FirstWriteSuccess = 2
    /\ WriteSucceeds(attempts[3])
    /\ \A k \in DOMAIN log : log[k].cand # attempts[3].model

\* the text is JSON: a value, or a bracketed list of values
JsonText(text) ==
    \/ Len(text) = 1 /\ text[1] \in {"A", "B", "7"}
    \/ /\ Len(text) >= 2
       /\ text[1] = "[" /\ text[Len(text)] = "]"
       /\ \/ Len(text) = 2
          \/ /\ Len(text) % 2 = 1
             /\ \A i \in 2..(Len(text) - 1) :
                   IF i % 2 = 0 THEN text[i] \in {"A", "B", "7"} ELSE text[i] = ","

\* the text has the expected shape: a posting object, or a list of posting objects
PostingText(text) ==
    /\ JsonText(text)
    /\ \A i \in DOMAIN text : text[i] # "7"

\* the last event of the history is an invoke that returned a response
LastInvokeReturned ==
    /\ log # << >>
    /\ log[Len(log)].ev = "invoke"
    /\ handle.outs[log[Len(log)].n].ok

\* C12: in extract_jobs a candidate whose output is malformed (not JSON, or JSON
\* that is no posting and no list of postings) is a parse failure of that candidate
\* only: the malformed value is never returned, the error is recorded and the loop
\* moves on to the next candidate.
C12_MalformedFallsThrough ==
    op = "extract" =>
        /\ pc = "returned" => PostingText(ContentOf(res))
        /\ (pc = "loop" /\ LastInvokeReturned) =>
              /\ ~PostingText(ContentOf(res))
              /\ last_error = Err("parse", handle.model, tryNo, ContentOf(res))
              /\ idx = PosOf(handle.model) + 1

\* the part of C12 the code keeps: an output that is not JSON is a parse failure of
\* its candidate, recorded, and the next candidate is tried.
C12_NonJsonFallsThrough ==
    op = "extract" =>
        /\ pc = "returned" => JsonText(ContentOf(res))
        /\ (pc = "loop" /\ LastInvokeReturned) =>
              /\ ~JsonText(ContentOf(res))
              /\ last_error = Err("parse", handle.model, tryNo, ContentOf(res))
              /\ idx = PosOf(handle.model) + 1

\* candidate i of the running method succeeds
Succeeds(i) ==
    IF op = "extract" THEN CandSucceeds(attempts[i]) ELSE WriteSucceeds(attempts[i])

\* C13: extract_jobs and write_mail raise to the caller only when every configured
\* candidate has been tried and has failed; a candidate's failure (constructor error,
\* non-transient error, rate-limit error that outlived the retries, parse error) is
\* caught: no exception is pending while the loop goes on, and every candidate
\* before the current one has been tried and has failed.
C13_OnlyExhaustionPropagates ==
    op \in {"extract", "write"} =>
        /\ pc = "raised" =>
              /\ \A i \in DOMAIN attempts :
                    Events("construct", attempts[i].model) # {} /\ ~Succeeds(i)
              /\ exc # NoError
        /\ pc \in {"loop", "invoke", "sleep", "wrapper_returned", "returned"} => exc = NoError
        /\ pc = "loop" =>
              \A i \in 1..(idx - 1) :
                    Events("construct", attempts[i].model) # {} /\ ~Succeeds(i)

\* extract_jobs raised after a constructor error, a rate-limit error that outlived
\* the retry, and a parse error
C13_Witness ==
    /\ op = "extract"
    /\ pc = "raised"
    /\ Len(attempts) = 3
    /\ ~CtorWorks(attempts[1])
    /\ CtorWorks(attempts[2]) /\ RateLimited(CandOutcome(attempts[2]))
    /\ CtorWorks(attempts[3]) /\ CandOutcome(attempts[3]).ok
    /\ exc.kind = "parse"

\* every attempt the wrapper may make fails with a rate-limit error
AllRateLimited == \A n \in 1..(retries + 1) : RateLimited(handle.outs[n])

\* C14: when every attempt fails with a rate-limit error, _invoke_with_retry ends
\* after exactly retries + 1 invoke calls and raises the error of the last of them.
C14_ExhaustionRaisesLast ==
    (op = "retry" /\ AllRateLimited) =>
        /\ tryNo <= retries + 1
        /\ pc # "wrapper_returned"
        /\ pc = "wrapper_raised" =>
              /\ tryNo = retries + 1
              /\ Cardinality(Events("invoke", handle.model)) = retries + 1
              /\ exc = Err("invoke", handle.model, retries + 1, handle.outs[retries + 1].msg)

\* the wrapper raised after three rate-limit failures, the last with a message of
\* its own
C14_Witness ==
    /\ op = "retry"
    /\ pc = "wrapper_raised"
    /\ retries = 2
    /\ AllRateLimited
    /\ handle.outs[3].msg # handle.outs[1].msg
    /\ exc.try = 3

\* C17: _invoke_with_retry sleeps only after a rate-limit failure with a retry left:
\* a call sleeps at most `retries` times, and never after its final attempt.
C17_SleepOnlyBeforeRetry ==
    op = "retry" =>
        /\ Cardinality(Events("sleep", handle.model)) <= retries
        /\ \A k \in DOMAIN log :
              log[k].ev = "sleep" =>
                  /\ RateLimited(handle.outs[log[k].n])
                  /\ log[k].n <= retries

Max(S) == CHOOSE x \in S : \A y \in S : y <= x

\* the invoke events of the history, in order
InvokeIndexes == {k \in DOMAIN log : log[k].ev = "invoke"}

\* the outcome of the invoke recorded at position k of the history
OutcomeAt(k) == behav[log[k].cand].outs[log[k].n]

\* the attempt recorded at position k ended in failure: the invocation raised, or
\* (extract_jobs only) it returned a text that the parser rejects
EndedInFailure(k) ==
    \/ ~OutcomeAt(k).ok
    \/ op = "extract" /\ ~ParseJson(OutcomeAt(k).res.text).ok

\* C18: within one extract_jobs or write_mail call the invocations are sequential:
\* none is in flight while the method or the wrapper does anything else, candidates
\* are invoked in list order, the attempts of one candidate are numbered 1, 2, ...
\* without a gap, and a candidate is invoked only after every attempt of the
\* candidates before it has ended in failure.
C18_SequentialInOrder ==
    op \in {"extract", "write"} =>
        /\ \A k \in InvokeIndexes : \A j \in InvokeIndexes :
              k < j =>
                  /\ PosOf(log[k].cand) <= PosOf(log[j].cand)
                  /\ EndedInFailure(k)
                  /\ log[k].cand = log[j].cand =>
                        /\ log[k].n < log[j].n
                        /\ ~OutcomeAt(k).ok
        /\ \A k \in InvokeIndexes :
              /\ log[k].n \in 1..(Retries + 1)
              /\ log[k].n > 1 =>
                    \E j \in InvokeIndexes :
                        j < k /\ log[j].cand = log[k].cand /\ log[j].n = log[k].n - 1
        /\ \A k \in InvokeIndexes :
              (k < Len(log) \/ pc \in {"returned", "raised"}) =>
                  (~EndedInFailure(k) => k = Max(InvokeIndexes))

\* the third candidate was invoked after two attempts of the first and one of the
\* second all failed
C18_Witness ==
    /\ op = "write"
    /\ pc = "returned"
    /\ Len(attempts) = 3
    /\ Cardinality(Events("invoke", attempts[1].model)) = 2
    /\ Cardinality(Events("invoke", attempts[2].model)) = 1
    /\ Cardinality(Events("invoke", attempts[3].model)) = 1
    /\ log[Len(log)].cand = attempts[3].model

\* C19: _get_secret(name) returns the store's value when the store is present, the
\* lookup does not raise and the value is non-empty; in every other case (no store,
\* a raising lookup, a missing or empty value) it returns the environment's value
\* for name; it never raises.
C19_StoreThenEnvironment ==
    (op = "secret" /\ pc = "returned") =>
        LET name == result[1] IN
        /\ result[2] = IF stMode = "ok" /\ store[name] \notin {NoneVal, ""}
                       THEN store[name]
                       ELSE env[name]
        /\ exc = NoError

\* the store holds a key but its lookup raises: the environment's key is returned
C19_Witness ==
    /\ op = "secret"
    /\ pc = "returned"
    /\ stMode = "raises"
    /\ store[result[1]] = StoreKey(result[1])
    /\ result[2] = EnvKey(result[1])

\* an invocation of the running call returned a nonempty text
ReturnedNonempty ==
    \E k \in InvokeIndexes : OutcomeAt(k).ok /\ OutcomeAt(k).res.text # << >>

\* C15: write_mail called with an empty links sequence does not fail because of the
\* list: it raises only when no candidate succeeds, and once a candidate's model
\* has returned nonempty content the call returns, and returns that nonempty string.
C15_EmptyLinksStillWrites ==
    (op = "write" /\ args.links = << >>) =>
        /\ pc \in {"raised", "ui_done"} => WriteSucceeding = {}
        /\ ReturnedNonempty =>
              /\ pc \in {"wrapper_returned", "returned"}
              /\ pc = "returned" =>
                    /\ result # << >>
                    /\ result = OutcomeAt(Max(InvokeIndexes)).res.text

\* with no links, the text of a retried candidate is returned
C15_Witness ==
    /\ op = "write"
    /\ args.links = << >>
    /\ pc = "returned"
    /\ result = << "B" >>
    /\ Cardinality(InvokeIndexes) >= 2

IsPrefix(a, b) == Len(a) <= Len(b) /\ SubSeq(b, 1, Len(a)) = a

\* C16: a write_mail call repeats an earlier write_mail call with the same job and
\* links on the same Chain: its invocations are the same, in the same order, and it
\* ends the same way with the same output; and no call, extract_jobs or write_mail,
\* leaves the Chain's fields other than it found them.
C16_RepeatableCalls ==
    \A k \in DOMAIN done :
        /\ done[k].chain = chain
        /\ (done[k].op = "write" /\ op = "write" /\ done[k].args = args) =>
              /\ IsPrefix(log, done[k].log)
              /\ pc = "returned" =>
                    /\ log = done[k].log
                    /\ result = done[k].result
                    /\ done[k].exc = NoError
              /\ pc \in {"raised", "ui_done"} =>
                    /\ log = done[k].log
                    /\ exc = done[k].exc

\* the second of two equal write_mail calls has returned after a fallback
C16_Witness ==
    /\ Len(done) >= 1
    /\ done[1].op = "write"
    /\ op = "write"
    /\ done[1].args = args
    /\ pc = "returned"
    /\ Cardinality(InvokeIndexes) >= 3
    /\ result = << "A" >>

\* C20: when a call made by the UI fails with a final error that the retry wrapper
\* classifies as a rate limit ("rate limit", "429", "quota" or "exceeded" in the
\* message), the UI shows the rate-limit advice; for every other failure it shows
\* the generic message.
C20_AdviceForEveryRateLimit ==
    pc = "ui_done" => (shown = "advice" <=> Flavored(exc.msg))

\* supplementary: what the handler does tell apart
C20_AdviceFor429AndRateLimit ==
    pc = "ui_done" =>
        (shown = "advice" <=>
            \E i \in DOMAIN exc.msg : Lower(exc.msg[i]) \in {"rate limit", "429"})

\* the invocations of the running call made on the handle of model m
InvokesOf(m) == {k \in InvokeIndexes : log[k].cand = m}

\* C21: with the retry policy of the two pipelines (retries = 1), one extract_jobs or
\* write_mail call invokes each candidate at most 2 times, so at most 2 x (number of
\* candidates) <= 6 times in all, and the call always ends, with a result or with an
\* error.
C21_BoundedAndTerminates ==
    /\ [](op \in {"extract", "write"} =>
             /\ Len(attempts) <= 3
             /\ \A m \in ModelNames :
                   /\ Cardinality(InvokesOf(m)) <= 2
                   /\ InvokesOf(m) # {} => \E i \in DOMAIN attempts : attempts[i].model = m
             /\ Cardinality(InvokeIndexes) <= 2 * Len(attempts)
             /\ Cardinality(InvokeIndexes) <= 6)
    /\ (op \in {"extract", "write"}) ~> (pc \in {"returned", "raised"})

\* three candidates, each invoked twice, and the call has ended with the last error
C21_Witness ==
    /\ op = "extract"
    /\ pc = "raised"
    /\ Len(attempts) = 3
    /\ Cardinality(InvokeIndexes) = 6
    /\ exc.try = 2

\* the stringified job record, and nothing else
JobOnly(job) == << "{", "role", ":", job.role, ",", "tone", ":", job.tone, "}" >>

\* C22: the links argument of write_mail has no effect: what is sent to every
\* candidate is the stringified job alone, and a write_mail call with the same job as
\* an earlier one, whatever the links of the two, makes the same invocations, sends
\* the same payload and returns the same text (or raises the same error).
C22_LinksIgnored ==
    op = "write" =>
        /\ pc \in {"invoke", "sleep", "wrapper_returned", "wrapper_raised"} =>
              (payload.key = "job_description" /\ payload.value = JobOnly(args.job))
        /\ \A k \in DOMAIN done :
              (done[k].op = "write" /\ done[k].args.job = args.job) =>
                  /\ IsPrefix(log, done[k].log)
                  /\ pc \in {"returned", "raised", "ui_done"} =>
                        /\ log = done[k].log
                        /\ payload = done[k].payload
                        /\ result = done[k].result
                        /\ exc = done[k].exc

\* the same job was written with and without links, after a fallback, to the same text
C22_Witness ==
    /\ Len(done) >= 1
    /\ done[1].op = "write"
    /\ op = "write"
    /\ done[1].args.job = args.job
    /\ done[1].args.links = << >>
    /\ args.links # << >>
    /\ pc = "returned"
    /\ Cardinality(InvokeIndexes) >= 2
    /\ result = done[1].result
    /\ result # << >>

====
